---- MODULE Spec2Model ----
(***************************************************************************)
(* Stock Spreadsheet Generator: the polling loop of main.rs                *)
(* (query_tickers / deserialize_yahoo), the row types and their CSV        *)
(* rendering, the CSV emission of main, and the blocking quote client of   *)
(* yahoo.rs (request_quote).                                               *)
(*                                                                         *)
(* Strings are sequences of one-character strings, so that to_string and   *)
(* the re-reading of a written field are real conversions.  A Decimal is    *)
(* a mantissa and a scale: the value m / 10^s, as in rust_decimal.          *)
(***************************************************************************)
EXTENDS Integers, Sequences, FiniteSets, TLC

\* ---------------------------------------------------------------- bounds
\* Longest configured ticker list.
MaxTickers == 2
\* Largest reading of the clock that measures the time since the previous
\* request returned (the clock saturates there).
MaxGap == 2
\* The pacing delay of the claim on pacing, in clock ticks (any positive delay).
Delay == 1

\* ------------------------------------------------------------- Option<T>
None == [some |-> FALSE]
Some(x) == [some |-> TRUE, val |-> x]
unwrap_or(o, d) == IF o.some THEN o.val ELSE d
\* Option::or
or(a, b) == IF a.some THEN a ELSE b

\* --------------------------------------------------------------- strings
Digits == <<"0", "1", "2", "3", "4", "5", "6", "7", "8", "9">>

RECURSIVE NatToString(_)
\* u32::to_string, and the digits of a Decimal's integer part.
NatToString(n) ==
    IF n < 10 THEN <<Digits[n + 1]>>
    ELSE NatToString(n \div 10) \o <<Digits[(n % 10) + 1]>>

RECURSIVE Pow10(_)
Pow10(n) == IF n = 0 THEN 1 ELSE 10 * Pow10(n - 1)

Abs(x) == IF x < 0 THEN -x ELSE x

RECURSIVE ZeroPad(_, _)
\* s left-padded with "0" to width w.
ZeroPad(s, w) == IF Len(s) >= w THEN s ELSE ZeroPad(<<"0">> \o s, w)

\* ------------------------------------------------------ rust_decimal::Decimal
Dec(m, s) == [m |-> m, s |-> s]
DecZero == Dec(0, 0)
MaxOf(a, b) == IF a >= b THEN a ELSE b

\* Decimal::from(u32)
DecFromU32(n) == Dec(n, 0)

\* std::ops::Sub for Decimal: the operands are brought to the larger scale.
DecSub(a, b) ==
    LET s == MaxOf(a.s, b.s)
    IN  Dec(a.m * Pow10(s - a.s) - b.m * Pow10(s - b.s), s)

\* std::ops::Add / AddAssign for Decimal.
DecAdd(a, b) ==
    LET s == MaxOf(a.s, b.s)
    IN  Dec(a.m * Pow10(s - a.s) + b.m * Pow10(s - b.s), s)

\* std::ops::Mul for Decimal: the scales add.
DecMul(a, b) == Dec(a.m * b.m, a.s + b.s)

\* Decimal::round_dp: a value of at most dp decimals is returned as it is;
\* otherwise banker's rounding (a midpoint goes to the even neighbour) to dp
\* decimals.
round_dp(d, dp) ==
    IF d.s <= dp THEN d
    ELSE LET p == Pow10(d.s - dp)
             a == Abs(d.m)
             q == a \div p
             r == a % p
             up == (2 * r > p) \/ (2 * r = p /\ q % 2 = 1)
             n == IF up THEN q + 1 ELSE q
         IN  Dec(IF d.m < 0 THEN -n ELSE n, dp)

\* Decimal::to_string: sign, integer part, and s digits after the point.
DecToString(d) ==
    LET a == Abs(d.m)
        p == Pow10(d.s)
        int == NatToString(a \div p)
        frac == IF d.s = 0 THEN <<>>
                ELSE <<".">> \o ZeroPad(NatToString(a % p), d.s)
    IN  (IF d.m < 0 THEN <<"-">> ELSE <<>>) \o int \o frac

\* ------------------------------------------------------------ input values
GOOG == <<"G", "O", "O", "G">>
BAD == <<"B", "A", "D">>
USD == <<"U", "S", "D">>
CAD == <<"C", "A", "D">>
Ids == {GOOG, BAD}
Currencies == {USD, CAD}
\* 100.00 and 1.005 (a midpoint of the second decimal).
Prices == {Dec(10000, 2), Dec(1005, 3)}
\* The previousClose and chartPreviousClose an answer may carry: 98.00, 1.0.
PreviousCloses == {None, Some(Dec(9800, 2))}
ChartPreviousCloses == {None, Some(Dec(10, 1))}
Statuses == {200, 404}

\* struct Ticker { id, quantity: Option<u32> }
TickerSet ==
    { [id |-> GOOG, quantity |-> Some(2)],
      [id |-> GOOG, quantity |-> None],
      [id |-> BAD, quantity |-> Some(1)] }

\* Config.tickers: every list of at most MaxTickers tickers.
Configs == UNION { [1..n -> TickerSet] : n \in 0..MaxTickers }

\* The "meta" object of one chart result, as the upstream sends it.
Metas ==
    [ symbol : Ids,
      currency : Currencies,
      regularMarketPrice : Prices,
      previousClose : PreviousCloses,
      chartPreviousClose : ChartPreviousCloses ]

\* A response body: one that cannot be read to its end, one that is no JSON,
\* a JSON document whose chart.result is null (the upstream's error payload),
\* and one whose chart.result is a list of zero or one result.
Bodies ==
    { [kind |-> "unreadable"], [kind |-> "text"] }
    \cup { [kind |-> "json", result |-> None] }
    \cup { [kind |-> "json", result |-> Some(<<>>)] }
    \cup { [kind |-> "json", result |-> Some(<<m>>)] : m \in Metas }

\* What one GET brings back: no response at all (transport failure), or a
\* status and a body.
TransportFailure == [sent |-> FALSE]
Responses ==
    {TransportFailure}
    \cup { [sent |-> TRUE, status |-> st, body |-> b] : st \in Statuses, b \in Bodies }

\* ------------------------------------------------------------ Result<T, E>
Ok(v) == [tag |-> "Ok", val |-> v]
Err(e) == [tag |-> "Err", err |-> e]
\* A panic (unwrap on None or Err, a failed assert_eq!, expect).
Panic(msg) == [tag |-> "Panic", msg |-> msg]
NoResult == [tag |-> "none"]

\* ------------------------------------------------------------- main.rs rows
\* fn create_failed_row
create_failed_row(t) ==
    [kind |-> "FailedQuote", ticker |-> t.id, quantity |-> unwrap_or(t.quantity, 0)]

\* serde's derive(Deserialize) for Response/Chart/Quote/Meta of main.rs:
\* result must be a list, and every meta must carry chartPreviousClose
\* (previousClose is an Option; symbol is not a field and is ignored).
ResponseSchemaMatches(body) ==
    /\ body.result.some
    /\ \A k \in 1..Len(body.result.val) : body.result.val[k].chartPreviousClose.some

\* async fn deserialize_yahoo
deserialize_yahoo(t, resp) ==
    LET volume == unwrap_or(t.quantity, 0)
    IN  IF ~resp.sent THEN Err("Warning: invalid response from yahoo!")
        ELSE IF resp.body.kind # "json" THEN Err("Encountered malformed json.")
        ELSE IF ~ResponseSchemaMatches(resp.body) THEN Err("Warning: invalid json!")
        ELSE IF Len(resp.body.result.val) = 0 THEN Err("Warning: missing result!")
        ELSE LET meta == resp.body.result.val[1]
             IN  Ok([ kind |-> "RealQuote",
                      ticker |-> t.id,
                      price |-> meta.regularMarketPrice,
                      change |-> DecSub(meta.regularMarketPrice,
                                        unwrap_or(meta.previousClose,
                                                  meta.chartPreviousClose.val)),
                      quantity |-> unwrap_or(t.quantity, 0),
                      total |-> DecMul(meta.regularMarketPrice, DecFromU32(volume)),
                      currency |-> meta.currency ])

\* query_tickers with a failed fetch pushing no row.
query_tickers_push_dropping(rs, t, res) ==
    IF res.tag = "Ok" THEN Append(rs, res.val) ELSE rs

\* The body of query_tickers' loop: the row pushed for ticker t.
query_tickers_push(rs, t, res) ==
    Append(rs, IF res.tag = "Ok" THEN res.val ELSE create_failed_row(t))

\* What query_tickers prints for ticker t.
query_tickers_log(lg, res) ==
    IF res.tag = "Ok" THEN lg ELSE Append(lg, res.err)

\* trait FormattedQuote: the getters of RealQuote and FailedQuote.
get_ticker(r) == r.ticker
get_quantity(r) == r.quantity
get_price(r) == IF r.kind = "RealQuote" THEN Some(r.price) ELSE None
get_change(r) == IF r.kind = "RealQuote" THEN Some(r.change) ELSE None
get_total(r) == IF r.kind = "RealQuote" THEN Some(r.total) ELSE None
get_currency(r) == IF r.kind = "RealQuote" THEN Some(r.currency) ELSE None

\* RealQuote::write_line without the round_dp(2) calls.
RealQuote_write_line_unrounded(r) ==
    << r.ticker,
       DecToString(r.price),
       DecToString(r.change),
       NatToString(r.quantity),
       DecToString(r.total),
       r.currency >>

\* RealQuote::write_line: the record it hands to the writer.
RealQuote_write_line(r) ==
    << r.ticker,
       DecToString(round_dp(r.price, 2)),
       DecToString(round_dp(r.change, 2)),
       NatToString(r.quantity),
       DecToString(round_dp(r.total, 2)),
       r.currency >>

\* FailedQuote::write_line with the quantity one column to the right.
FailedQuote_write_line_shifted(r) ==
    << r.ticker, <<>>, <<>>, <<>>, NatToString(r.quantity), <<>> >>

\* FailedQuote::write_line
FailedQuote_write_line(r) ==
    << r.ticker, <<>>, <<>>, NatToString(r.quantity), <<>>, <<>> >>

\* dyn FormattedQuote dispatch.
write_line(r) ==
    IF r.kind = "RealQuote" THEN RealQuote_write_line(r) ELSE FailedQuote_write_line(r)

\* ------------------------------------------------------- yahoo.rs client
\* StatusCode::is_success
is_success(status) == 200 <= status /\ status < 300

\* serde's derive(Deserialize) for YahooResponse..YahooMeta: result must be
\* a list; symbol, currency and regularMarketPrice are required, both
\* previous closes are Options.
YahooResponseSchemaMatches(body) == body.result.some

\* pub fn request_quote
request_quote(ticker, resp) ==
    IF ~resp.sent THEN Err([variant |-> "ConnectionError"])
    ELSE IF ~is_success(resp.status)
         THEN Err([variant |-> "HttpError", status |-> resp.status])
    ELSE IF resp.body.kind = "unreadable" THEN Panic("response.text().unwrap()")
    ELSE IF resp.body.kind # "json" THEN Err([variant |-> "MalformedJson"])
    ELSE IF ~YahooResponseSchemaMatches(resp.body) THEN Err([variant |-> "MalformedJson"])
    ELSE IF Len(resp.body.result.val) = 0
         THEN Err([variant |-> "InvalidResponse", msg |-> "No data provided"])
    ELSE LET quote == resp.body.result.val[1]
         IN  IF ticker # quote.symbol THEN Panic("assert_eq!(ticker, quote.symbol)")
             ELSE IF ~or(quote.previousClose, quote.chartPreviousClose).some
                  THEN Panic("Option::unwrap() on None")
             ELSE Ok([ price |-> quote.regularMarketPrice,
                       change |-> DecSub(quote.regularMarketPrice,
                                         or(quote.previousClose,
                                            quote.chartPreviousClose).val),
                       currency |-> quote.currency ])

\* ------------------------------------------------------------------ state
VARIABLES
    tickers,      \* config.tickers
    t_idx,        \* the ticker query_tickers' loop is at
    pc,           \* where main (or the probe of one fetch) stands
    rows,         \* query_tickers' rows: Vec<Box<dyn FormattedQuote>>
    log,          \* the lines printed to the console
    out,          \* the records the csv writer has accepted
    total,        \* main's running total
    idx,          \* the row main's write loop is at
    outcome,      \* "running", or how main ended: "Ok", "Err(2)", "panic"
    inFlight,     \* number of requests sent and not yet answered
    sinceReturn,  \* clock ticks since the previous request returned
    gapAtSend,    \* sinceReturn as read when the latest request was sent
    resp,         \* the response given to the fetch under probe
    result        \* what the fetch under probe returned

vars == << tickers, t_idx, pc, rows, log, out, total, idx, outcome, inFlight,
           sinceReturn, gapAtSend, resp, result >>

\* The header record of main.
Header ==
    << <<"T", "i", "c", "k", "e", "r">>,
       <<"P", "r", "i", "c", "e">>,
       <<"C", "h", "a", "n", "g", "e">>,
       <<"Q", "u", "a", "n", "t", "i", "t", "y">>,
       <<"T", "o", "t", "a", "l">>,
       <<"C", "u", "r", "r", "e", "n", "c", "y">> >>

\* The separator record of main: [""; 6].
BlankRecord == << <<>>, <<>>, <<>>, <<>>, <<>>, <<>> >>

\* The totals record of main.
TotalsRecord(tot) == << <<>>, <<>>, <<>>, <<>>, DecToString(tot), <<>> >>

\* main accumulating the rounded row totals.
add_total_rounded(tot, r) ==
    IF get_total(r).some THEN DecAdd(tot, round_dp(get_total(r).val, 2)) ELSE tot

\* main's accumulation of one row into the total.
add_total(tot, r) ==
    IF get_total(r).some THEN DecAdd(tot, get_total(r).val) ELSE tot

\* The state main is in once the configuration is parsed and the csv writer
\* is open, for every configuration.
Init ==
    /\ tickers \in Configs
    /\ t_idx = 1
    /\ pc = "header"
    /\ rows = <<>>
    /\ log = <<>>
    /\ out = <<>>
    /\ total = DecZero
    /\ idx = 1
    /\ outcome = "running"
    /\ inFlight = 0
    /\ sinceReturn = 0
    /\ gapAtSend = 0
    /\ resp = TransportFailure
    /\ result = NoResult

\* main: the header record; a failed write panics (expect).
WriteHeader ==
    /\ pc = "header"
    /\ \E ok \in BOOLEAN :
          IF ok
          THEN /\ out' = Append(out, Header)
               /\ pc' = IF Len(tickers) = 0 THEN "rows" ELSE "query"
               /\ outcome' = outcome
          ELSE /\ out' = out
               /\ pc' = "exit"
               /\ outcome' = "panic"
    /\ UNCHANGED << tickers, t_idx, rows, log, total, idx, inFlight, sinceReturn,
                    gapAtSend, resp, result >>

\* query_tickers: the request for the next ticker is sent (reqwest::get).
SendRequest ==
    /\ pc = "query"
    /\ t_idx <= Len(tickers)
    /\ pc' = "await"
    /\ inFlight' = inFlight + 1
    /\ gapAtSend' = sinceReturn
    /\ UNCHANGED << tickers, t_idx, rows, log, out, total, idx, outcome, sinceReturn,
                    resp, result >>

\* query_tickers: the awaited request returns, deserialize_yahoo decodes the
\* answer and the row is pushed; after the last ticker the rows go to main.
ReceiveResponse ==
    /\ pc = "await"
    /\ \E r \in Responses :
          LET t == tickers[t_idx]
              res == deserialize_yahoo(t, r)
          IN  /\ rows' = query_tickers_push(rows, t, res)
              /\ log' = query_tickers_log(log, res)
    /\ inFlight' = inFlight - 1
    /\ sinceReturn' = 0
    /\ t_idx' = t_idx + 1
    /\ pc' = IF t_idx' > Len(tickers) THEN "rows" ELSE "query"
    /\ UNCHANGED << tickers, out, total, idx, outcome, gapAtSend, resp, result >>

\* Time passes between two requests of the polling loop.
Tick ==
    /\ pc = "query"
    /\ sinceReturn < MaxGap
    /\ sinceReturn' = sinceReturn + 1
    /\ UNCHANGED << tickers, t_idx, pc, rows, log, out, total, idx, outcome, inFlight,
                    gapAtSend, resp, result >>

\* main's loop over the rows: the total is accumulated and the row written;
\* a failed write is printed and the loop goes on.
WriteRow ==
    /\ pc = "rows"
    /\ idx <= Len(rows)
    /\ total' = add_total(total, rows[idx])
    /\ \E ok \in BOOLEAN :
          IF ok
          THEN /\ out' = Append(out, write_line(rows[idx]))
               /\ log' = log
          ELSE /\ out' = out
               /\ log' = Append(log, "Problem writing csv record")
    /\ idx' = idx + 1
    /\ UNCHANGED << tickers, t_idx, pc, rows, outcome, inFlight, sinceReturn,
                    gapAtSend, resp, result >>

\* main: the blank separator record; a failed write panics (expect).
WriteSeparator ==
    /\ pc = "rows"
    /\ idx > Len(rows)
    /\ \E ok \in BOOLEAN :
          IF ok
          THEN /\ out' = Append(out, BlankRecord)
               /\ pc' = "total"
               /\ outcome' = outcome
          ELSE /\ out' = out
               /\ pc' = "exit"
               /\ outcome' = "panic"
    /\ UNCHANGED << tickers, t_idx, rows, log, total, idx, inFlight, sinceReturn,
                    gapAtSend, resp, result >>

\* main: the totals record; a failed write panics (expect).
WriteTotal ==
    /\ pc = "total"
    /\ \E ok \in BOOLEAN :
          IF ok
          THEN /\ out' = Append(out, TotalsRecord(total))
               /\ pc' = "flush"
               /\ outcome' = outcome
          ELSE /\ out' = out
               /\ pc' = "exit"
               /\ outcome' = "panic"
    /\ UNCHANGED << tickers, t_idx, rows, log, total, idx, inFlight, sinceReturn,
                    gapAtSend, resp, result >>

\* main: writer.flush(); a failure is printed and main returns Err(2).
Flush ==
    /\ pc = "flush"
    /\ \E ok \in BOOLEAN :
          IF ok
          THEN /\ pc' = "open"
               /\ outcome' = outcome
               /\ log' = log
          ELSE /\ pc' = "exit"
               /\ outcome' = "Err(2)"
               /\ log' = Append(log, "Failed to save csv!")
    /\ UNCHANGED << tickers, t_idx, rows, out, total, idx, inFlight, sinceReturn,
                    gapAtSend, resp, result >>

\* main: open::that(output_filename); a failure is printed and main returns
\* Err(2), otherwise Ok(()).
OpenFile ==
    /\ pc = "open"
    /\ pc' = "exit"
    /\ \E ok \in BOOLEAN :
          IF ok
          THEN /\ outcome' = "Ok"
               /\ log' = log
          ELSE /\ outcome' = "Err(2)"
               /\ log' = Append(log, "Failed to open output file!")
    /\ UNCHANGED << tickers, t_idx, rows, out, total, idx, inFlight, sinceReturn,
                    gapAtSend, resp, result >>

Next ==
    \/ WriteHeader
    \/ SendRequest
    \/ ReceiveResponse
    \/ WriteRow
    \/ WriteSeparator
    \/ WriteTotal
    \/ Flush
    \/ OpenFile

\* One run of main.
Spec == Init /\ [][Next]_vars

NextTimed == Next \/ Tick

\* One run of main, with the clock between requests.
SpecTimed == Init /\ [][NextTimed]_vars

\* ---------------------------------------------------- one fetch under probe
\* One ticker and one upstream answer, for every ticker and every answer.
InitFetch ==
    /\ tickers \in { <<t>> : t \in TickerSet }
    /\ resp \in Responses
    /\ t_idx = 1
    /\ pc = "probe"
    /\ rows = <<>>
    /\ log = <<>>
    /\ out = <<>>
    /\ total = DecZero
    /\ idx = 1
    /\ outcome = "running"
    /\ inFlight = 0
    /\ sinceReturn = 0
    /\ gapAtSend = 0
    /\ result = NoResult

\* query_tickers' loop body on the answer: deserialize_yahoo, then the push.
ProbeDeserializeYahoo ==
    /\ pc = "probe"
    /\ result' = deserialize_yahoo(tickers[1], resp)
    /\ rows' = query_tickers_push(rows, tickers[1], result')
    /\ log' = query_tickers_log(log, result')
    /\ pc' = "queried"
    /\ UNCHANGED << tickers, t_idx, out, total, idx, outcome, inFlight, sinceReturn,
                    gapAtSend, resp >>

\* The row's write_line, the write succeeding.
ProbeWriteLine ==
    /\ pc = "queried"
    /\ out' = Append(out, write_line(rows[1]))
    /\ pc' = "written"
    /\ UNCHANGED << tickers, t_idx, rows, log, total, idx, outcome, inFlight,
                    sinceReturn, gapAtSend, resp, result >>

\* yahoo.rs' request_quote on the answer.
ProbeRequestQuote ==
    /\ pc = "probe"
    /\ result' = request_quote(tickers[1].id, resp)
    /\ pc' = "requested"
    /\ UNCHANGED << tickers, t_idx, rows, log, out, total, idx, outcome, inFlight,
                    sinceReturn, gapAtSend, resp >>

NextFetch ==
    \/ ProbeDeserializeYahoo
    \/ ProbeWriteLine
    \/ ProbeRequestQuote

\* Each fetch function applied to one answer.
SpecFetch == InitFetch /\ [][NextFetch]_vars

\* ------------------------------------------------- reading a field back
\* The digit a character stands for.
DigitValue(c) == CHOOSE k \in 0..9 : Digits[k + 1] = c

RECURSIVE DigitsToNat(_)
DigitsToNat(s) ==
    IF Len(s) = 0 THEN 0
    ELSE 10 * DigitsToNat(SubSeq(s, 1, Len(s) - 1)) + DigitValue(s[Len(s)])

\* The number a written field reads as: optional "-", digits, optional
\* "." and digits; as a mantissa and the number of decimals.
ParseDec(s) ==
    LET neg == Len(s) > 0 /\ s[1] = "-"
        body == IF neg THEN Tail(s) ELSE s
        dots == { k \in 1..Len(body) : body[k] = "." }
        dot == IF dots = {} THEN Len(body) + 1 ELSE CHOOSE k \in dots : TRUE
        int == SubSeq(body, 1, dot - 1)
        frac == SubSeq(body, dot + 1, Len(body))
        n == DigitsToNat(int \o frac)
    IN  Dec(IF neg THEN -n ELSE n, Len(frac))

\* v = xm / 10^xs, as numbers.
NumEq(v, xm, xs) == v.m * Pow10(xs) = xm * Pow10(v.s)

\* v has at most two decimals and lies within half a cent of xm / 10^xs.
RoundedToCents(v, xm, xs) ==
    LET S == MaxOf(xs, 2)
    IN  /\ v.s <= 2
        /\ 2 * Abs(v.m * Pow10(S - v.s) - xm * Pow10(S - xs)) <= Pow10(S - 2)

\* query_tickers has returned its rows to main.
QueryReturned == pc \in {"rows", "total", "flush", "open"} \/ (pc = "exit" /\ out # <<>>)

\* The configured quantity of ticker k, 0 when absent.
ConfiguredQuantity(k) == IF tickers[k].quantity.some THEN tickers[k].quantity.val ELSE 0

\* ------------------------------------------------------------------ claims

\* C1: whatever the fetches answer, query_tickers returns exactly one row
\* per configured ticker, the k-th row carrying the id and the quantity of
\* the k-th ticker (while the loop runs, the rows are those of the tickers
\* already visited).
C1_OneRowPerTickerInOrder ==
    /\ Len(rows) = (IF pc = "header" THEN 0 ELSE t_idx - 1)
    /\ QueryReturned => Len(rows) = Len(tickers)
    /\ \A k \in 1..Len(rows) :
          /\ get_ticker(rows[k]) = tickers[k].id
          /\ get_quantity(rows[k]) = ConfiguredQuantity(k)

\* C1 witness: two different tickers, the first fetch failed and the second
\* succeeded, and query_tickers has returned.
C1_Witness ==
    /\ QueryReturned
    /\ Len(tickers) = 2
    /\ tickers[1] # tickers[2]
    /\ rows[1].kind = "FailedQuote"
    /\ rows[2].kind = "RealQuote"

\* The totals record has been written (it is the last record of out).
TotalsWritten == pc \in {"flush", "open"} \/ (pc = "exit" /\ outcome \in {"Ok", "Err(2)"})

\* The largest number of decimals among the prices of the success rows.
RECURSIVE MaxPriceScale(_)
MaxPriceScale(rs) ==
    IF Len(rs) = 0 THEN 0
    ELSE MaxOf(IF rs[1].kind = "RealQuote" THEN rs[1].price.s ELSE 0,
               MaxPriceScale(Tail(rs)))

\* The sum of price * quantity over the success rows, in units of 10^-S.
RECURSIVE ExactSum(_, _)
ExactSum(rs, S) ==
    IF Len(rs) = 0 THEN 0
    ELSE (IF rs[1].kind = "RealQuote"
          THEN rs[1].price.m * Pow10(S - rs[1].price.s) * rs[1].quantity
          ELSE 0) + ExactSum(Tail(rs), S)

\* The sum of the Total fields the success rows are written with, in cents.
RECURSIVE WrittenTotalsSum(_)
WrittenTotalsSum(rs) ==
    IF Len(rs) = 0 THEN 0
    ELSE (IF rs[1].kind = "RealQuote"
          THEN LET v == ParseDec(write_line(rs[1])[5])
               IN  v.m * Pow10(2 - v.s)
          ELSE 0) + WrittenTotalsSum(Tail(rs))

C4_SuccessRowFields ==
    (pc = "written" /\ result.tag = "Ok") =>
        LET meta == resp.body.result.val[1]
            price == meta.regularMarketPrice
            prev == IF meta.previousClose.some THEN meta.previousClose.val
                    ELSE meta.chartPreviousClose.val
            q == ConfiguredQuantity(1)
            S == MaxOf(price.s, prev.s)
            rec == out[1]
        IN  /\ Len(rec) = 6
            /\ rec[1] = tickers[1].id
            /\ RoundedToCents(ParseDec(rec[2]), price.m, price.s)
            /\ RoundedToCents(ParseDec(rec[3]),
                              price.m * Pow10(S - price.s) - prev.m * Pow10(S - prev.s), S)
            /\ ParseDec(rec[4]) = Dec(q, 0)
            /\ RoundedToCents(ParseDec(rec[5]), price.m * q, price.s)
            /\ rec[6] = meta.currency
            /\ ~tickers[1].quantity.some => ParseDec(rec[5]).m = 0

\* C4 witness: a written success row whose price has a third decimal, with a
\* previousClose, for a ticker of quantity 1.
C4_Witness ==
    /\ pc = "written"
    /\ result.tag = "Ok"
    /\ resp.body.result.val[1].regularMarketPrice.s = 3
    /\ resp.body.result.val[1].previousClose.some
    /\ tickers[1].quantity = Some(1)

\* C5: every row is all-or-nothing: price, change, total and currency are all
\* present, or all absent; a failure row carries only the ticker id and its
\* quantity (0 when absent) and is written id, blank, blank, quantity, blank,
\* blank.
C5_RowsAllOrNothing ==
    \A k \in 1..Len(rows) :
        LET r == rows[k]
            rec == write_line(r)
        IN  \/ /\ get_price(r).some /\ get_change(r).some
               /\ get_total(r).some /\ get_currency(r).some
               /\ rec[2] # <<>> /\ rec[3] # <<>> /\ rec[5] # <<>>
            \/ /\ ~get_price(r).some /\ ~get_change(r).some
               /\ ~get_total(r).some /\ ~get_currency(r).some
               /\ DOMAIN r = {"kind", "ticker", "quantity"}
               /\ Len(rec) = 6
               /\ rec[1] = tickers[k].id
               /\ rec[2] = <<>> /\ rec[3] = <<>>
               /\ ParseDec(rec[4]) = Dec(ConfiguredQuantity(k), 0)
               /\ rec[5] = <<>> /\ rec[6] = <<>>

\* C5 witness: a run that ended Ok whose output holds the record of a failure
\* row of a ticker without a configured quantity.
C5_Witness ==
    /\ pc = "exit"
    /\ outcome = "Ok"
    /\ \E k \in 1..Len(rows) :
          /\ rows[k].kind = "FailedQuote"
          /\ ~tickers[k].quantity.some
          /\ \E j \in 1..Len(out) : out[j] = <<tickers[k].id, <<>>, <<>>, <<"0">>, <<>>, <<>>>>

\* The fetch under probe has returned (or panicked).
Fetched == pc \in {"queried", "written", "requested"}
\* The fetch under probe is deserialize_yahoo, inside query_tickers' loop.
ViaQueryTickers == pc \in {"queried", "written"}

\* The upstream's answer is one of the bad answers: transport failure,
\* non-2xx status, unparseable body, schema mismatch, empty result list, both
\* previous closes missing, or a symbol other than the requested one.
BadAnswer ==
    \/ ~resp.sent
    \/ ~is_success(resp.status)
    \/ resp.body.kind # "json"
    \/ ~resp.body.result.some
    \/ Len(resp.body.result.val) = 0
    \/ LET meta == resp.body.result.val[1]
       IN  \/ ~meta.previousClose.some /\ ~meta.chartPreviousClose.some
           \/ meta.symbol # tickers[1].id

\* C2: for every kind of bad upstream answer the fetch returns an error
\* value (it neither panics nor succeeds), and query_tickers makes a failure
\* row of it.
C2_BadAnswerIsErrorValue ==
    (Fetched /\ BadAnswer) =>
        /\ result.tag = "Err"
        /\ ViaQueryTickers => (Len(rows) = 1 /\ rows[1].kind = "FailedQuote")

\* C9: a non-2xx status, whatever the body, makes the fetch return an HTTP
\* error for that status; query_tickers makes a failure row of it and logs it.
C9_Non2xxIsHttpError ==
    (Fetched /\ resp.sent /\ ~is_success(resp.status)) =>
        /\ result.tag = "Err"
        /\ pc = "requested" =>
              result.err = [variant |-> "HttpError", status |-> resp.status]
        /\ ViaQueryTickers =>
              /\ rows[1].kind = "FailedQuote"
              /\ write_line(rows[1])
                    = <<tickers[1].id, <<>>, <<>>,
                        NatToString(ConfiguredQuantity(1)), <<>>, <<>>>>
              /\ Len(log) = 1

\* The answer is a 2xx response whose body is a chart with a result list.
WellFormed ==
    /\ resp.sent
    /\ is_success(resp.status)
    /\ resp.body.kind = "json"
    /\ resp.body.result.some

\* The error value says the response is malformed.
IsMalformedError(res) ==
    /\ res.tag = "Err"
    /\ IF pc = "requested"
       THEN res.err.variant \in {"MalformedJson", "InvalidResponse"}
       ELSE res.err \in {"Warning: invalid json!", "Encountered malformed json."}

\* The error value says the response holds no data.
IsNoDataError(res) ==
    /\ res.tag = "Err"
    /\ IF pc = "requested"
       THEN res.err = [variant |-> "InvalidResponse", msg |-> "No data provided"]
       ELSE res.err = "Warning: missing result!"

\* The fetch succeeded with change = price - close, as numbers.
ChangeIsAgainst(res, price, close) ==
    /\ res.tag = "Ok"
    /\ LET S == MaxOf(price.s, close.s)
       IN  NumEq(res.val.change,
                 price.m * Pow10(S - price.s) - close.m * Pow10(S - close.s), S)

\* C10: for a well-formed answer about the requested symbol, the change is
\* computed against previousClose whenever it is present, against
\* chartPreviousClose when only that is present, the fetch returns a
\* Malformed error when neither is; an empty result list gives a NoData error.
C10_PreviousCloseFallback ==
    (Fetched /\ WellFormed) =>
        IF Len(resp.body.result.val) = 0 THEN IsNoDataError(result)
        ELSE LET meta == resp.body.result.val[1]
             IN  meta.symbol = tickers[1].id =>
                    IF meta.previousClose.some
                    THEN ChangeIsAgainst(result, meta.regularMarketPrice,
                                         meta.previousClose.val)
                    ELSE IF meta.chartPreviousClose.some
                    THEN ChangeIsAgainst(result, meta.regularMarketPrice,
                                         meta.chartPreviousClose.val)
                    ELSE IsMalformedError(result)

\* C6: a request of the polling loop after the first is not sent before
\* Delay has passed since the previous request returned, and no two requests
\* are in flight together.
C6_PacedAndSequential ==
    /\ inFlight <= 1
    /\ (pc = "await" /\ t_idx >= 2) => gapAtSend >= Delay

\* A write of a data row has failed.
RowWriteFailed == \E k \in 1..Len(log) : log[k] = "Problem writing csv record"

\* C7: an I/O failure while writing the CSV is fatal: a run that goes on to
\* open the file, or ends Ok, has had no failed write and its output holds
\* every data row.
C7_WriteFailureIsFatal ==
    (pc = "open" \/ outcome = "Ok") =>
        /\ ~RowWriteFailed
        /\ Len(out) = Len(rows) + 3

\* C8: a completed write holds, in this order, the header, the n data rows in
\* report order, one blank record and the totals record, whose only
\* non-blank field is the grand total in the 5th column.
C8_RecordOrder ==
    (pc = "open" \/ outcome = "Ok") =>
        LET n == Len(rows)
        IN  /\ Len(out) = n + 3
            /\ out[1] = Header
            /\ \A k \in 1..n : out[1 + k] = write_line(rows[k])
            /\ out[n + 2] = BlankRecord
            /\ \A f \in {1, 2, 3, 4, 6} : out[n + 3][f] = <<>>
            /\ out[n + 3][5] # <<>>
            /\ LET v == ParseDec(out[n + 3][5])
               IN  NumEq(v, total.m, total.s)

====
